---- MODULE Spec2Model ----
(***************************************************************************)
(* Procrustes analysis (scipy.spatial.procrustes): a state-machine model   *)
(* of the function `procrustes(data1, data2)`, statement by statement.     *)
(*                                                                         *)
(* Numbers.  Specifications Spec and SpecConc compute in exact real        *)
(* arithmetic: a value is num*sqrt(rad)/den with rad squarefree, which is  *)
(* closed under every operation the function performs on matrices with    *)
(* rational entries and at most two columns.  Specification SpecFP models  *)
(* lines 100-116 on IEEE-754 binary64 values (np.double), bit by bit.      *)
(***************************************************************************)
EXTENDS Integers, Sequences, FiniteSets, TLC

(***************************************************************************)
(* Bounds of the model.                                                    *)
(***************************************************************************)
\* Largest number of rows (points) of an input matrix.
MaxRows == 3
\* Column counts (dimensions of the space) of the 2-D inputs.  The solver's
\* singular value decomposition has the closed form used below only for
\* matrices with at most two columns.
ColCounts == {0, 1, 2}
\* Entries of the input matrices.
Vals == {0, 1}

(***************************************************************************)
(* Exact real arithmetic on values num*sqrt(rad)/den.                      *)
(***************************************************************************)
Abs(x) == IF x < 0 THEN -x ELSE x

Sign(x) == IF x < 0 THEN -1 ELSE IF x = 0 THEN 0 ELSE 1

RECURSIVE Gcd(_, _)
Gcd(a, b) == IF b = 0 THEN a ELSE Gcd(b, a % b)

\* The largest r in lo..hi with r*r <= n, given lo*lo <= n, by bisection.
RECURSIVE IsqrtIn(_, _, _)
IsqrtIn(n, lo, hi) ==
    IF lo >= hi THEN lo
    ELSE LET mid == (lo + hi + 1) \div 2
         IN  IF mid * mid <= n THEN IsqrtIn(n, mid, hi) ELSE IsqrtIn(n, lo, mid - 1)

\* The integer square root of n >= 1; 46340 is the largest root of a 32-bit integer.
Isqrt(n) == IsqrtIn(n, 1, IF n < 46340 THEN n ELSE 46340)

\* The largest g with g*g dividing n (n >= 1).
SquarePart(n) ==
    LET roots == {g \in 1..Isqrt(n) : n % (g * g) = 0}
    IN  CHOOSE g \in roots : \A h \in roots : h <= g

\* num*sqrt(rad)/den in lowest terms; rad is squarefree, den need not be positive.
RNorm(n, d, r) ==
    IF n = 0 THEN [num |-> 0, den |-> 1, rad |-> 1]
    ELSE LET g == Gcd(Abs(n), Abs(d))
         IN  [num |-> (Sign(d) * n) \div g, den |-> Abs(d) \div g, rad |-> r]

RZero == RNorm(0, 1, 1)

ROne == RNorm(1, 1, 1)

RFromInt(i) == RNorm(i, 1, 1)

RNeg(x) == [x EXCEPT !.num = -x.num]

RAbs(x) == [x EXCEPT !.num = Abs(x.num)]

RMul(x, y) ==
    LET g == Gcd(x.rad, y.rad)
    IN  RNorm(x.num * y.num * g, x.den * y.den, (x.rad \div g) * (y.rad \div g))

\* 1/x for x # 0.
RInv(x) == CASE x.num # 0 -> RNorm(Sign(x.num) * x.den, Abs(x.num) * x.rad, x.rad)

RDiv(x, y) == RMul(x, RInv(y))

\* x + y.  Defined when the two values are commensurable (same radical, or one
\* of them zero); every sum the function forms is.
RAdd(x, y) ==
    CASE x.num = 0 -> y
      [] y.num = 0 -> x
      [] x.num # 0 /\ y.num # 0 /\ x.rad = y.rad ->
            RNorm(x.num * y.den + y.num * x.den, x.den * y.den, x.rad)

RSub(x, y) == RAdd(x, RNeg(y))

\* sqrt(x) for a rational x >= 0.
RSqrt(x) ==
    CASE x.num = 0 -> RZero
      [] x.num > 0 /\ x.rad = 1 ->
            LET nd == x.num * x.den
                g  == SquarePart(nd)
            IN  RNorm(g, x.den, nd \div (g * g))


(***************************************************************************)
(* IEEE-754 binary64 arithmetic (np.double): a finite double is a sign, a  *)
(* significand of Precision bits and an exponent, value man * 2^exp; every *)
(* operation is the exact result rounded to nearest, ties to even.  The    *)
(* significand is a natural number of any size: its bits, least            *)
(* significant first.  Exponents stay far from the format's limits for the *)
(* values used, so overflow, underflow and subnormals do not arise.        *)
(***************************************************************************)
Precision == 53

\* Every operation on these bit strings is written without recursion over
\* the bits: carries and borrows by their generate/propagate conditions.
BTrim(x) ==
    IF \A i \in 1..Len(x) : x[i] = 0 THEN <<>>
    ELSE SubSeq(x, 1, CHOOSE i \in 1..Len(x) : x[i] = 1 /\ \A j \in (i + 1)..Len(x) : x[j] = 0)

RECURSIVE BOfInt(_)
BOfInt(n) == IF n = 0 THEN <<>> ELSE <<n % 2>> \o BOfInt(n \div 2)

Bit(x, i) == IF i <= Len(x) THEN x[i] ELSE 0

MaxLen(x, y) == IF Len(x) < Len(y) THEN Len(y) ELSE Len(x)

\* The carry into bit i of x + y.
CarryInto(x, y, i) ==
    \E j \in 1..(i - 1) :
        /\ Bit(x, j) + Bit(y, j) = 2
        /\ \A l \in (j + 1)..(i - 1) : Bit(x, l) + Bit(y, l) = 1

BAdd(x, y) ==
    BTrim([i \in 1..(MaxLen(x, y) + 1) |->
              (Bit(x, i) + Bit(y, i) + (IF CarryInto(x, y, i) THEN 1 ELSE 0)) % 2])

\* The borrow into bit i of x - y.
BorrowInto(x, y, i) ==
    \E j \in 1..(i - 1) :
        /\ Bit(x, j) < Bit(y, j)
        /\ \A l \in (j + 1)..(i - 1) : Bit(x, l) = Bit(y, l)

\* x - y for x >= y.
BSub(x, y) ==
    BTrim([i \in 1..Len(x) |->
              (2 + Bit(x, i) - Bit(y, i) - (IF BorrowInto(x, y, i) THEN 1 ELSE 0)) % 2])

BLess(x, y) ==
    \E i \in 1..MaxLen(x, y) :
        /\ Bit(x, i) < Bit(y, i)
        /\ \A l \in (i + 1)..MaxLen(x, y) : Bit(x, l) = Bit(y, l)

\* x * 2^k
BShl(x, k) == IF x = <<>> THEN x ELSE [i \in 1..(k + Len(x)) |-> IF i <= k THEN 0 ELSE x[i - k]]

\* 2^k mod n, by repeated squaring.
RECURSIVE Pow2Mod(_, _)
Pow2Mod(k, n) ==
    IF k = 0 THEN 1 % n
    ELSE LET h == Pow2Mod(k \div 2, n)
         IN  IF k % 2 = 0 THEN (h * h) % n ELSE (2 * h * h) % n

\* The number written by bits lo..hi of x, mod n, by halving the range.
RECURSIVE ValMod(_, _, _, _)
ValMod(x, lo, hi, n) ==
    IF lo > hi THEN 0
    ELSE IF lo = hi THEN x[lo] % n
    ELSE LET mid == (lo + hi) \div 2
         IN  (ValMod(x, mid + 1, hi, n) * Pow2Mod(mid + 1 - lo, n) + ValMod(x, lo, mid, n)) % n

\* Quotient and remainder of x by a small n >= 1: long division, where the
\* remainder carried into bit i is the number written by the bits above it, mod n.
BDivSmall(x, n) ==
    [q |-> BTrim([i \in 1..Len(x) |->
                    IF 2 * ValMod(x, i + 1, Len(x), n) + x[i] >= n THEN 1 ELSE 0]),
     r |-> ValMod(x, 1, Len(x), n)]

IsDouble(x) == "man" \in DOMAIN x

FZero == [sign |-> 0, man |-> <<>>, exp |-> 0]

\* The double nearest to (m + f) * 2^e, where 0 <= f < 1 and sticky says f > 0.
FRound(sign, m, e, sticky) ==
    LET L == Len(m)
    IN  IF L = 0 THEN FZero
        ELSE IF L <= Precision
        THEN [sign |-> sign, man |-> BShl(m, Precision - L), exp |-> e - (Precision - L)]
        ELSE LET d       == L - Precision
                 kept    == SubSeq(m, d + 1, L)
                 rest    == sticky \/ \E i \in 1..(d - 1) : m[i] = 1
                 roundUp == m[d] = 1 /\ (rest \/ kept[1] = 1)
                 m2      == IF roundUp THEN BAdd(kept, <<1>>) ELSE kept
             IN  IF Len(m2) > Precision
                 THEN [sign |-> sign, man |-> SubSeq(m2, 2, Len(m2)), exp |-> e + d + 1]
                 ELSE [sign |-> sign, man |-> m2, exp |-> e + d]

FFromInt(i) == FRound(IF i < 0 THEN 1 ELSE 0, BOfInt(Abs(i)), 0, FALSE)

FNeg(x) == IF x.man = <<>> THEN x ELSE [x EXCEPT !.sign = 1 - x.sign]

FAdd(x, y) ==
    IF x.man = <<>> THEN y
    ELSE IF y.man = <<>> THEN x
    ELSE LET e  == IF x.exp < y.exp THEN x.exp ELSE y.exp
             mx == BShl(x.man, x.exp - e)
             my == BShl(y.man, y.exp - e)
         IN  IF x.sign = y.sign THEN FRound(x.sign, BAdd(mx, my), e, FALSE)
             ELSE IF BLess(mx, my) THEN FRound(y.sign, BSub(my, mx), e, FALSE)
             ELSE FRound(x.sign, BSub(mx, my), e, FALSE)

\* x / n for a count n >= 1.
FDivInt(x, n) ==
    LET k  == Len(BOfInt(n)) + 2
        qr == BDivSmall(BShl(x.man, k), n)
    IN  FRound(x.sign, qr.q, x.exp - k, qr.r # 0)

\* The double written p/q in decimal, p >= 0 and q >= 1 small integers.
DoubleOf(p, q) == FDivInt(FFromInt(p), q)

(***************************************************************************)
(* The arithmetic of an array's elements is that of their type.            *)
(***************************************************************************)
Add(x, y) == IF IsDouble(x) THEN FAdd(x, y) ELSE RAdd(x, y)

Sub(x, y) == IF IsDouble(x) THEN FAdd(x, FNeg(y)) ELSE RSub(x, y)

\* x / n for a count n >= 1.
DivCount(x, n) == IF IsDouble(x) THEN FDivInt(x, n) ELSE RDiv(x, RFromInt(n))

IsNonZero(x) == IF IsDouble(x) THEN x.man # <<>> ELSE x.num # 0

\* The elements of s added up in order.
RECURSIVE RSum(_)
RSum(s) ==
    IF s = <<>> THEN RZero
    ELSE IF Len(s) = 1 THEN s[1]
    ELSE Add(RSum(SubSeq(s, 1, Len(s) - 1)), s[Len(s)])

(***************************************************************************)
(* Arrays.  An ndarray is its shape and its elements in row-major order;   *)
(* ndim is the length of the shape.                                        *)
(***************************************************************************)
Ndim(a) == Len(a.shape)

Shape(a) == a.shape

\* Element (i, j) of a 2-D array.
At(a, i, j) == a.flat[(i - 1) * a.shape[2] + j]

\* The n x k array whose element (i, j) is F(i, j).
MkMatrix(n, k, F(_, _)) ==
    [shape |-> <<n, k>>,
     flat  |-> [p \in 1..(n * k) |-> F(((p - 1) \div k) + 1, ((p - 1) % k) + 1)]]

\* np.mean(a, 0): the mean of each column.
Mean0(a) ==
    [j \in 1..a.shape[2] |->
        DivCount(RSum([i \in 1..a.shape[1] |-> At(a, i, j)]), a.shape[1])]

\* Mutant: the mean is taken along the other axis, np.mean(a, 1).
Centered_Axis1(a) ==
    LET mean == [i \in 1..a.shape[1] |->
                    DivCount(RSum([j \in 1..a.shape[2] |-> At(a, i, j)]), a.shape[2])]
    IN  MkMatrix(a.shape[1], a.shape[2], LAMBDA i, j : Sub(At(a, i, j), mean[i]))

\* a - np.mean(a, 0): every row minus the column means (a new array).
Centered(a) ==
    LET mean == Mean0(a)
    IN  MkMatrix(a.shape[1], a.shape[2], LAMBDA i, j : Sub(At(a, i, j), mean[j]))

\* np.any(a): some element is nonzero.
NpAny(a) == \E p \in 1..Len(a.flat) : IsNonZero(a.flat[p])

\* np.linalg.norm(a): the Frobenius norm.
Norm(a) == RSqrt(RSum([p \in 1..Len(a.flat) |-> RMul(a.flat[p], a.flat[p])]))

\* a / x, elementwise (a new array).
DivScalar(a, x) == [shape |-> a.shape, flat |-> [p \in 1..Len(a.flat) |-> RDiv(a.flat[p], x)]]

\* a * x, elementwise (a new array).
MulScalar(a, x) == [shape |-> a.shape, flat |-> [p \in 1..Len(a.flat) |-> RMul(a.flat[p], x)]]

\* Mutant: division by the squared norm, tr(A*A^T).
Normalized_BySquaredNorm(m) == DivScalar(m, RMul(Norm(m), Norm(m)))

\* mtx / np.linalg.norm(mtx)
Normalized(m) == DivScalar(m, Norm(m))

\* a.T
Transpose(a) == MkMatrix(a.shape[2], a.shape[1], LAMBDA i, j : At(a, j, i))

\* np.dot(a, b)
Dot(a, b) ==
    MkMatrix(a.shape[1], b.shape[2],
             LAMBDA i, j : RSum([l \in 1..a.shape[2] |-> RMul(At(a, i, l), At(b, l, j))]))

\* np.sum(np.square(a - b))
SumSquareDiff(a, b) ==
    RSum([p \in 1..Len(a.flat) |->
            LET d == RSub(a.flat[p], b.flat[p]) IN RMul(d, d)])

(***************************************************************************)
(* The orthogonal Procrustes solver, orthogonal_procrustes(A, B) -> (R, s):*)
(* the orthogonal R and the scale s minimising ||A - s*B*R^T||_F, from the *)
(* singular value decomposition U*Sigma*V^T of N = A^T*B: R = U*V^T and    *)
(* s = sum(Sigma).  For one or two columns the decomposition has a closed  *)
(* form: with cof(N) the cofactor matrix, s*R = N + cof(N) when det N > 0, *)
(* s*R = N - cof(N) when det N < 0, and s = sqrt(||N||_F^2 + 2*|det N|).   *)
(* When det N = 0 the singular vectors of the zero singular value are      *)
(* determined up to sign only, and both R are values an SVD routine may    *)
(* return; when N = 0 every orthogonal R is.                               *)
(***************************************************************************)
Cofactor2(n) ==
    MkMatrix(2, 2, LAMBDA i, j : IF i = j THEN At(n, 3 - i, 3 - j) ELSE RNeg(At(n, 3 - i, 3 - j)))

AddM(a, b) == [shape |-> a.shape, flat |-> [p \in 1..Len(a.flat) |-> RAdd(a.flat[p], b.flat[p])]]

SubM(a, b) == [shape |-> a.shape, flat |-> [p \in 1..Len(a.flat) |-> RSub(a.flat[p], b.flat[p])]]

Det2(n) == RSub(RMul(At(n, 1, 1), At(n, 2, 2)), RMul(At(n, 1, 2), At(n, 2, 1)))

IntMatrix(rows) ==
    MkMatrix(Len(rows), Len(rows[1]), LAMBDA i, j : RFromInt(rows[i][j]))

\* sum(Sigma): the sum of the singular values of the k x k matrix n, k <= 2.
SingularValueSum(n) ==
    IF n.shape[1] = 1 THEN RAbs(At(n, 1, 1))
    ELSE RSqrt(RAdd(RSum([p \in 1..4 |-> RMul(n.flat[p], n.flat[p])]),
                    RMul(RFromInt(2), RAbs(Det2(n)))))

\* The matrices U*V^T that a singular value decomposition of n can give.
PolarFactors(n) ==
    LET s == SingularValueSum(n)
    IN  IF n.shape[1] = 1
        THEN IF s.num = 0 THEN {IntMatrix(<<<<1>>>>), IntMatrix(<<<<-1>>>>)}
             ELSE {DivScalar(n, s)}
        ELSE IF s.num = 0
             THEN {IntMatrix(<<<<1, 0>>, <<0, 1>>>>), IntMatrix(<<<<0, 1>>, <<1, 0>>>>)}
             ELSE LET d == Det2(n).num
                      plus  == DivScalar(AddM(n, Cofactor2(n)), s)
                      minus == DivScalar(SubM(n, Cofactor2(n)), s)
                  IN  (IF d >= 0 THEN {plus} ELSE {}) \cup (IF d <= 0 THEN {minus} ELSE {})

\* The solver's error conditions: shapes that differ, or no rows or columns.
SolverRejects(A, B) ==
    \/ Ndim(A) # 2 \/ Ndim(B) # 2
    \/ Shape(A) # Shape(B)
    \/ A.shape[1] = 0 \/ A.shape[2] = 0

\* The (R, s) pairs orthogonal_procrustes(A, B) can return.
OrthogonalProcrustes(A, B) ==
    LET N == Dot(Transpose(A), B)
    IN  {[R |-> r, s |-> SingularValueSum(N)] : r \in PolarFactors(N)}

(***************************************************************************)
(* The callers and the heap.                                               *)
(*                                                                         *)
(* Arrays are objects: heap maps an object to its current contents.  The   *)
(* two input arrays belong to the callers and may be passed to several     *)
(* calls; every array expression of the function allocates a new object,   *)
(* named by the call and the statement that creates it.                    *)
(***************************************************************************)
\* Number of callers that may run procrustes at the same time.
NumCallers == 2

Callers == 1..NumCallers

InputA == <<0, "a">>

InputB == <<0, "b">>

InputIds == {InputA, InputB}

Sites == {"centered1", "centered2", "normalized1", "normalized2", "transformed2"}

ObjIds == InputIds \cup (Callers \X Sites)

NoRef == <<0, "none">>

NoArray == [shape |-> <<-1>>, flat |-> <<>>]

NoReal == [num |-> 0, den |-> 0, rad |-> 0]

IsInput(ref) == ref \in InputIds

\* 2-D input arrays: every shape up to MaxRows x 2, zero-sized shapes included.
Matrices ==
    UNION {{[shape |-> <<n, k>>, flat |-> f] : f \in [1..(n * k) -> {RFromInt(v) : v \in Vals}]}
           : n \in 0..MaxRows, k \in ColCounts}

\* Inputs that are not 2-dimensional: 0-D, 1-D and 3-D arrays.
NonMatrices ==
    {[shape |-> <<>>, flat |-> <<ROne>>],
     [shape |-> <<2>>, flat |-> <<RZero, ROne>>],
     [shape |-> <<1, 2, 1>>, flat |-> <<RZero, ROne>>]}

Inputs == Matrices \cup NonMatrices

\* The inputs of the concurrent specification.
ConcInputs ==
    NonMatrices
    \cup {m \in Matrices : m.shape[1] = 0 \/ m.shape[2] = 0}
    \cup {IntMatrix(<<<<0>>, <<1>>>>), IntMatrix(<<<<1>>, <<1>>>>),
          IntMatrix(<<<<0, 0>>, <<1, 0>>, <<0, 1>>>>), IntMatrix(<<<<0, 1>>, <<1, 1>>, <<1, 0>>>>),
          IntMatrix(<<<<0, 0>>, <<1, 1>>, <<0, 0>>>>)}

\* Largest number of rows of an input of doubles.
FPMaxRows == 3

\* The doubles 0.1 and 0.5.
FPVals == {DoubleOf(1, 10), DoubleOf(1, 2)}

\* Inputs whose elements are doubles: the one-column matrices.
FPInputs ==
    UNION {{[shape |-> <<n, 1>>, flat |-> f] : f \in [1..n -> FPVals]} : n \in 1..FPMaxRows}

VARIABLES
    heap,        \* object -> contents
    pc,          \* caller -> the statement it is about to execute
    calls,       \* caller -> number of calls it has made
    args,        \* caller -> the objects it passed as (data1, data2)
    in1, in2,    \* caller -> contents of its arguments when the call started
    frame,       \* caller -> the local variables of its call
    events,      \* caller -> what the call has done so far, in order
    out,         \* caller -> outcome of its last finished call
    prev         \* caller -> outcome of the call before, by value

vars == <<heap, pc, calls, args, in1, in2, frame, events, out, prev>>

\* The local variables of procrustes before any is bound.
NoFrame ==
    [data1 |-> NoRef, data2 |-> NoRef, num_rows |-> -1, num_cols |-> -1,
     mtx1 |-> NoRef, mtx2 |-> NoRef, R |-> NoArray, s |-> NoReal, disparity |-> NoReal]

NoOutcome == [kind |-> "none", error |-> "", mtx1 |-> NoRef, mtx2 |-> NoRef, disparity |-> NoReal]

Error(e) == [kind |-> "error", error |-> e, mtx1 |-> NoRef, mtx2 |-> NoRef, disparity |-> NoReal]

Result(m1, m2, d) == [kind |-> "result", error |-> "", mtx1 |-> m1, mtx2 |-> m2, disparity |-> d]

\* An outcome by value.
ErrorValue(e) == [kind |-> "error", error |-> e, mtx1 |-> NoArray, mtx2 |-> NoArray, disparity |-> NoReal]

ResultValue(m1, m2, d) == [kind |-> "result", error |-> "", mtx1 |-> m1, mtx2 |-> m2, disparity |-> d]

ValueOf(o, h) ==
    IF o.kind = "result" THEN ResultValue(h[o.mtx1], h[o.mtx2], o.disparity)
    ELSE [kind |-> o.kind, error |-> o.error, mtx1 |-> NoArray, mtx2 |-> NoArray, disparity |-> NoReal]

\* What a caller keeps of a finished call: its arguments and its outcome, by value.
NoCall == [data1 |-> NoArray, data2 |-> NoArray, outcome |-> ValueOf(NoOutcome, <<>>)]

InitHeap(a, b) ==
    [o \in ObjIds |-> IF o = InputA THEN a ELSE IF o = InputB THEN b ELSE NoArray]

InitRest ==
    /\ pc = [c \in Callers |-> "idle"]
    /\ calls = [c \in Callers |-> 0]
    /\ args = [c \in Callers |-> <<NoRef, NoRef>>]
    /\ in1 = [c \in Callers |-> NoArray]
    /\ in2 = [c \in Callers |-> NoArray]
    /\ frame = [c \in Callers |-> NoFrame]
    /\ events = [c \in Callers |-> <<>>]
    /\ out = [c \in Callers |-> NoOutcome]
    /\ prev = [c \in Callers |-> NoCall]

Init ==
    /\ \E a \in Inputs, b \in Inputs : heap = InitHeap(a, b)
    /\ InitRest

InitFP ==
    /\ \E a \in FPInputs, b \in FPInputs : heap = InitHeap(a, b)
    /\ InitRest

InitConc ==
    /\ \E a \in ConcInputs, b \in ConcInputs : heap = InitHeap(a, b)
    /\ InitRest

(***************************************************************************)
(* procrustes(data1, data2), one action per statement.                     *)
(***************************************************************************)
\* np.asarray(data, dtype=np.double) of an array of doubles is that array.
AsArray(ref) == ref

\* Mutant: centering in place, data -= np.mean(data, 0).
ResultObject_InPlace(c, site, operand) ==
    IF site \in {"centered1", "centered2"} THEN operand ELSE <<c, site>>

\* Mutant: every call computes in the same module-level scratch arrays.
ResultObject_Shared(c, site, operand) == <<1, site>>

\* The object an array expression stores its value in: the expressions
\* data - np.mean(data, 0), mtx / norm and np.dot(mtx2, R.T) * s each allocate
\* a new array and leave their operand alone.
ResultObject(c, site, operand) == <<c, site>>

\* An object nothing refers to any more is gone; the inputs are the callers'.
Free(h, ref) == IF ref = NoRef \/ IsInput(ref) THEN h ELSE [h EXCEPT ![ref] = NoArray]

Store(h, ref, value) == [h EXCEPT ![ref] = value]

Log(c, e) == events' = [events EXCEPT ![c] = Append(@, e)]

\* raise ValueError(...): the call ends, its locals and their arrays are gone.
Raise(c, e) ==
    /\ pc' = [pc EXCEPT ![c] = "done"]
    /\ out' = [out EXCEPT ![c] = Error(e)]
    /\ heap' = Free(Free(heap, frame[c].mtx1), frame[c].mtx2)
    /\ frame' = [frame EXCEPT ![c] = NoFrame]
    /\ Log(c, "raise")
    /\ UNCHANGED <<calls, args, in1, in2, prev>>

\* The call goes on to statement next with its locals now f.
Goto(c, next, f, e) ==
    /\ pc' = [pc EXCEPT ![c] = next]
    /\ frame' = [frame EXCEPT ![c] = f]
    /\ Log(c, e)
    /\ UNCHANGED <<calls, args, in1, in2, out, prev>>

\* Lines 100-101: the call binds data1 and data2.
Enter(c, r1, r2) ==
    /\ pc' = [pc EXCEPT ![c] = "check_ndim"]
    /\ args' = [args EXCEPT ![c] = <<r1, r2>>]
    /\ in1' = [in1 EXCEPT ![c] = heap[r1]]
    /\ in2' = [in2 EXCEPT ![c] = heap[r2]]
    /\ frame' = [frame EXCEPT ![c] = [NoFrame EXCEPT !.data1 = AsArray(r1), !.data2 = AsArray(r2)]]
    /\ events' = [events EXCEPT ![c] = <<>>]

\* A caller calls procrustes(a, b).
Call(c) ==
    /\ pc[c] = "idle"
    /\ Enter(c, InputA, InputB)
    /\ calls' = [calls EXCEPT ![c] = 1]
    /\ UNCHANGED <<heap, out, prev>>

\* A caller calls procrustes(a, a): both parameters are the same array.
CallSame(c) ==
    /\ pc[c] = "idle"
    /\ Enter(c, InputA, InputA)
    /\ calls' = [calls EXCEPT ![c] = 1]
    /\ UNCHANGED <<heap, out, prev>>

\* The caller keeps the first outcome and calls again with the arguments swapped.
SwapCall(c) ==
    /\ pc[c] = "done"
    /\ calls[c] = 1
    /\ prev' = [prev EXCEPT ![c] = [data1 |-> in1[c], data2 |-> in2[c], outcome |-> ValueOf(out[c], heap)]]
    /\ heap' = Free(Free(heap, out[c].mtx1), out[c].mtx2)
    /\ out' = [out EXCEPT ![c] = NoOutcome]
    /\ calls' = [calls EXCEPT ![c] = 2]
    /\ Enter(c, args[c][2], args[c][1])

\* Mutant: "and" for "or".
NotTwoDimensional_Both(a, b) == Ndim(a) # 2 /\ Ndim(b) # 2

\* Lines 103-104.
NotTwoDimensional(a, b) == Ndim(a) # 2 \/ Ndim(b) # 2

CheckNdim(c) ==
    /\ pc[c] = "check_ndim"
    /\ IF NotTwoDimensional(heap[frame[c].data1], heap[frame[c].data2])
       THEN Raise(c, "DimensionalityError")
       ELSE Goto(c, "check_shape", frame[c], "ndim_ok") /\ UNCHANGED heap

\* Mutant: only the row counts are compared.
ShapeMismatch_RowsOnly(a, b) == Shape(a)[1] # Shape(b)[1]

\* Lines 105-107.
ShapeMismatch(a, b) == <<Shape(a)[1], Shape(a)[2]>> # Shape(b)

CheckShape(c) ==
    /\ pc[c] = "check_shape"
    /\ LET a == heap[frame[c].data1]
           b == heap[frame[c].data2]
       IN  IF ShapeMismatch(a, b)
           THEN Raise(c, "ShapeMismatchError")
           ELSE /\ Goto(c, "check_empty",
                        [frame[c] EXCEPT !.num_rows = Shape(a)[1], !.num_cols = Shape(a)[2]],
                        "shape_ok")
                /\ UNCHANGED heap

\* Mutant: only the row count is tested.
IsEmpty_RowsOnly(rows, cols) == rows = 0

\* Lines 108-109.
IsEmpty(rows, cols) == rows = 0 \/ cols = 0

CheckEmpty(c) ==
    /\ pc[c] = "check_empty"
    /\ IF IsEmpty(frame[c].num_rows, frame[c].num_cols)
       THEN Raise(c, "EmptyInputError")
       ELSE Goto(c, "center", frame[c], "nonempty_ok") /\ UNCHANGED heap

\* Lines 112-113: mtx1 = data1 - np.mean(data1, 0), and the same for mtx2.
Center(c) ==
    /\ pc[c] = "center"
    /\ LET t1 == ResultObject(c, "centered1", frame[c].data1)
           h1 == Store(heap, t1, Centered(heap[frame[c].data1]))
           t2 == ResultObject(c, "centered2", frame[c].data2)
           h2 == Store(h1, t2, Centered(h1[frame[c].data2]))
       IN  /\ heap' = h2
           /\ Goto(c, "check_degenerate", [frame[c] EXCEPT !.mtx1 = t1, !.mtx2 = t2], "center")

\* Mutant: "and" for "or".
IsDegenerate_Both(m1, m2) == (~NpAny(m1)) /\ (~NpAny(m2))

\* Lines 115-116.
IsDegenerate(m1, m2) == (~NpAny(m1)) \/ (~NpAny(m2))

CheckDegenerate(c) ==
    /\ pc[c] = "check_degenerate"
    /\ IF IsDegenerate(heap[frame[c].mtx1], heap[frame[c].mtx2])
       THEN Raise(c, "DegenerateDataError")
       ELSE Goto(c, "normalize", frame[c], "nondegenerate_ok") /\ UNCHANGED heap

\* Lines 119-120: mtx1 = mtx1 / np.linalg.norm(mtx1), and the same for mtx2.
Normalize(c) ==
    /\ pc[c] = "normalize"
    /\ LET t1 == ResultObject(c, "normalized1", frame[c].mtx1)
           h1 == Store(Free(heap, IF t1 = frame[c].mtx1 THEN NoRef ELSE frame[c].mtx1),
                       t1, Normalized(heap[frame[c].mtx1]))
           t2 == ResultObject(c, "normalized2", frame[c].mtx2)
           h2 == Store(Free(h1, IF t2 = frame[c].mtx2 THEN NoRef ELSE frame[c].mtx2),
                       t2, Normalized(h1[frame[c].mtx2]))
       IN  /\ heap' = h2
           /\ Goto(c, "solve", [frame[c] EXCEPT !.mtx1 = t1, !.mtx2 = t2], "normalize")

\* Line 123: R, s = orthogonal_procrustes(mtx1, mtx2).
Solve(c) ==
    /\ pc[c] = "solve"
    /\ LET A == heap[frame[c].mtx1]
           B == heap[frame[c].mtx2]
       IN  IF SolverRejects(A, B)
           THEN Raise(c, "SolverError")
           ELSE /\ \E rs \in OrthogonalProcrustes(A, B) :
                      Goto(c, "transform", [frame[c] EXCEPT !.R = rs.R, !.s = rs.s], "solve")
                /\ UNCHANGED heap

\* Line 124: mtx2 = np.dot(mtx2, R.T) * s.
Transformed(m2, r, scale) == MulScalar(Dot(m2, Transpose(r)), scale)

Transform(c) ==
    /\ pc[c] = "transform"
    /\ LET t2 == ResultObject(c, "transformed2", frame[c].mtx2)
           h2 == Store(Free(heap, IF t2 = frame[c].mtx2 THEN NoRef ELSE frame[c].mtx2),
                       t2, Transformed(heap[frame[c].mtx2], frame[c].R, frame[c].s))
       IN  /\ heap' = h2
           /\ Goto(c, "disparity", [frame[c] EXCEPT !.mtx2 = t2], "transform")

\* Line 127: disparity = np.sum(np.square(mtx1 - mtx2)).
Disparity(c) ==
    /\ pc[c] = "disparity"
    /\ Goto(c, "return",
            [frame[c] EXCEPT !.disparity = SumSquareDiff(heap[frame[c].mtx1], heap[frame[c].mtx2])],
            "disparity")
    /\ UNCHANGED heap

\* Line 129: return mtx1, mtx2, disparity.
Return(c) ==
    /\ pc[c] = "return"
    /\ pc' = [pc EXCEPT ![c] = "done"]
    /\ out' = [out EXCEPT ![c] = Result(frame[c].mtx1, frame[c].mtx2, frame[c].disparity)]
    /\ frame' = [frame EXCEPT ![c] = NoFrame]
    /\ Log(c, "return")
    /\ UNCHANGED <<heap, calls, args, in1, in2, prev>>

Step(c) ==
    \/ Call(c)
    \/ CheckNdim(c)
    \/ CheckShape(c)
    \/ CheckEmpty(c)
    \/ Center(c)
    \/ CheckDegenerate(c)
    \/ Normalize(c)
    \/ Solve(c)
    \/ Transform(c)
    \/ Disparity(c)
    \/ Return(c)

\* One caller: procrustes(a, b), and then procrustes(b, a).
Next == Step(1) \/ SwapCall(1)

Spec == Init /\ [][Next]_vars

\* Several callers, in any interleaving of their statements.
NextConc == \E c \in Callers : Step(c) \/ CallSame(c)

SpecConc == InitConc /\ [][NextConc]_vars

\* One caller on arrays of doubles, as far as line 116: the validation.
NextFP ==
    \/ Call(1)
    \/ CheckNdim(1)
    \/ CheckShape(1)
    \/ CheckEmpty(1)
    \/ Center(1)
    \/ CheckDegenerate(1)

SpecFP == InitFP /\ [][NextFP]_vars

\* procrustes(a, b) run on its own, from the first statement to the last: the
\* outcomes it can have, by value.
Procrustes(a, b) ==
    IF NotTwoDimensional(a, b) THEN {ErrorValue("DimensionalityError")}
    ELSE IF ShapeMismatch(a, b) THEN {ErrorValue("ShapeMismatchError")}
    ELSE IF IsEmpty(Shape(a)[1], Shape(a)[2]) THEN {ErrorValue("EmptyInputError")}
    ELSE LET c1 == Centered(a)
             c2 == Centered(b)
         IN  IF IsDegenerate(c1, c2) THEN {ErrorValue("DegenerateDataError")}
             ELSE LET m1 == Normalized(c1)
                      m2 == Normalized(c2)
                  IN  IF SolverRejects(m1, m2) THEN {ErrorValue("SolverError")}
                      ELSE {ResultValue(m1, Transformed(m2, rs.R, rs.s),
                                        SumSquareDiff(m1, Transformed(m2, rs.R, rs.s)))
                            : rs \in OrthogonalProcrustes(m1, m2)}

(***************************************************************************)
(* Properties.                                                             *)
(***************************************************************************)
Is2D(a) == Len(a.shape) = 2

SameShape(a, b) == a.shape = b.shape

ZeroSized(a) == Is2D(a) /\ (a.shape[1] = 0 \/ a.shape[2] = 0)

\* Two 2-D arrays of one shape with at least one row and one column.
ValidShapes(a, b) ==
    Is2D(a) /\ Is2D(b) /\ SameShape(a, b) /\ a.shape[1] >= 1 /\ a.shape[2] >= 1

RowsIdentical(a) ==
    \A i \in 1..a.shape[1], j \in 1..a.shape[2] : At(a, i, j) = At(a, 1, j)

InCall(c) == pc[c] # "idle"

Failed(c, e) == pc[c] = "done" /\ out[c] = Error(e)

Returned(c) == pc[c] = "done" /\ out[c].kind = "result"

\* The events of call c before its i-th.
Before(c, i) == {events[c][j] : j \in 1..(i - 1)}

\* C1: a call in which data1 or data2 is not 2-dimensional gets no further
\* than the dimensionality check, and ends with the dimensionality error and
\* no result, whatever the other input is.
C1_NonTwoDimensionalFails ==
    \A c \in Callers :
        (InCall(c) /\ (~Is2D(in1[c]) \/ ~Is2D(in2[c])))
            => (pc[c] = "check_ndim" \/ Failed(c, "DimensionalityError"))

C1_Witness ==
    /\ Failed(1, "DimensionalityError")
    /\ Is2D(in1[1]) /\ in1[1].shape = <<3, 2>>
    /\ Ndim(in2[1]) = 3

\* C2: a call with two 2-D inputs whose shapes differ, in rows or in columns,
\* gets no further than the shape check and ends with the shape-mismatch
\* error and no result.
C2_ShapeMismatchFails ==
    \A c \in Callers :
        (InCall(c) /\ Is2D(in1[c]) /\ Is2D(in2[c]) /\ ~SameShape(in1[c], in2[c]))
            => (pc[c] \in {"check_ndim", "check_shape"} \/ Failed(c, "ShapeMismatchError"))

C2_Witness ==
    /\ Failed(1, "ShapeMismatchError")
    /\ in1[1].shape = <<3, 2>>
    /\ in2[1].shape = <<3, 1>>

\* C3 as claimed: a finished call one of whose inputs is 2-D with zero rows or
\* zero columns has failed with the empty-input error, whatever the other input.
C3_ZeroSizedAlwaysEmptyError ==
    \A c \in Callers :
        (pc[c] = "done" /\ (ZeroSized(in1[c]) \/ ZeroSized(in2[c])))
            => out[c] = Error("EmptyInputError")

\* C3 amended: a finished call one of whose inputs is 2-D with zero rows or
\* zero columns has failed: with the dimensionality error when the other input
\* is not 2-D, with the shape-mismatch error when the other input is 2-D of
\* another shape, and with the empty-input error when both have the same
\* (zero-sized) shape; in the last case the call gets no further than the
\* empty-input check.
C3_ZeroSizedFails ==
    \A c \in Callers :
        /\ (pc[c] = "done" /\ (ZeroSized(in1[c]) \/ ZeroSized(in2[c])))
              => out[c] = Error(IF ~Is2D(in1[c]) \/ ~Is2D(in2[c]) THEN "DimensionalityError"
                                ELSE IF ~SameShape(in1[c], in2[c]) THEN "ShapeMismatchError"
                                ELSE "EmptyInputError")
        /\ (InCall(c) /\ ZeroSized(in1[c]) /\ SameShape(in1[c], in2[c]))
              => (pc[c] \in {"check_ndim", "check_shape", "check_empty"}
                  \/ Failed(c, "EmptyInputError"))

C3_Witness ==
    /\ Failed(1, "EmptyInputError")
    /\ in1[1].shape = <<0, 2>>
    /\ in2[1].shape = <<0, 2>>

\* C4: a call with 2-D inputs of one shape, with at least one row and one
\* column, that is past the degeneracy check has failed with the
\* degenerate-data error exactly when all rows of data1 are identical or all
\* rows of data2 are identical; a call that has ended otherwise has returned a
\* result.
C4_DegenerateIffRowsIdentical ==
    \A c \in Callers :
        (ValidShapes(in1[c], in2[c])
         /\ pc[c] \in {"normalize", "solve", "transform", "disparity", "return", "done"})
            => /\ Failed(c, "DegenerateDataError")
                    <=> (RowsIdentical(in1[c]) \/ RowsIdentical(in2[c]))
               /\ pc[c] = "done" => (Failed(c, "DegenerateDataError") \/ Returned(c))

\* The validation checks and the computations on the data, as events.
Checks == {"ndim_ok", "shape_ok", "nonempty_ok", "nondegenerate_ok"}

Transforms == {"center", "normalize", "solve", "transform", "disparity"}

\* C5 as claimed: nothing is computed from the data (no centering, no
\* normalization, no solver call, no disparity) before all four validation
\* checks have passed.
C5_AllChecksBeforeAnyTransform ==
    \A c \in Callers : \A i \in 1..Len(events[c]) :
        events[c][i] \in Transforms => Checks \subseteq Before(c, i)

\* C5 amended: the dimensionality, shape and empty-input checks pass before
\* anything is computed from the data; the degeneracy check is made on the
\* centered matrices, so centering, and only centering, comes before it;
\* normalization, the solver call, the transform and the disparity come after
\* all four checks.  The inputs are then what the checks promise: 2-D, of one
\* shape, with rows and columns, and, from normalization on, with centered
\* matrices that are not entirely zero.  The solver is called with two 2-D
\* matrices of one nonempty shape, neither entirely zero.  A failed call
\* leaves no result and none of its arrays behind.
C5_ChecksBeforeTransforms ==
    \A c \in Callers :
        /\ \A i \in 1..Len(events[c]) :
              /\ events[c][i] = "center"
                    => (Checks \ {"nondegenerate_ok"}) \subseteq Before(c, i)
              /\ events[c][i] \in (Transforms \ {"center"})
                    => (Checks \cup {"center"}) \subseteq Before(c, i)
              /\ events[c][i] = "center" => ValidShapes(in1[c], in2[c])
              /\ events[c][i] = "nondegenerate_ok"
                    => (NpAny(Centered(in1[c])) /\ NpAny(Centered(in2[c])))
        /\ pc[c] = "solve"
              => /\ ValidShapes(heap[frame[c].mtx1], heap[frame[c].mtx2])
                 /\ NpAny(heap[frame[c].mtx1]) /\ NpAny(heap[frame[c].mtx2])
        /\ (pc[c] = "done" /\ out[c].kind = "error")
              => /\ out[c].mtx1 = NoRef /\ out[c].mtx2 = NoRef /\ out[c].disparity = NoReal
                 /\ \A site \in Sites : heap[<<c, site>>] = NoArray

C5_Witness ==
    /\ pc[1] = "solve"
    /\ events[1] = <<"ndim_ok", "shape_ok", "nonempty_ok", "center", "nondegenerate_ok", "normalize">>
    /\ in1[1].shape = <<3, 2>>

\* C6: during and after a call, whether it returns or fails, both input
\* arrays hold the values they held when the call started, and the returned
\* mtx1 and mtx2 are new arrays: neither is an input, and they are two arrays.
C6_InputsNotMutated ==
    \A c \in Callers :
        /\ InCall(c) => (heap[args[c][1]] = in1[c] /\ heap[args[c][2]] = in2[c])
        /\ Returned(c) => /\ ~IsInput(out[c].mtx1)
                          /\ ~IsInput(out[c].mtx2)
                          /\ out[c].mtx1 # out[c].mtx2

\* A call with both parameters the same array has returned while another
\* call, on the arrays a and b, is under way.
C6_Witness ==
    /\ Returned(1)
    /\ args[1] = <<InputA, InputA>>
    /\ pc[2] = "disparity"
    /\ args[2] = <<InputA, InputB>>
    /\ heap[InputA] # heap[InputB]

C8_CallsIndependent ==
    \A c \in Callers :
        pc[c] = "done" => ValueOf(out[c], heap) \in Procrustes(in1[c], in2[c])

\* Two calls that share the input a have run interleaved: one has returned a
\* result while the other, on other arguments, is in the middle of its own.
C8_Witness ==
    /\ Returned(1)
    /\ pc[2] = "transform"
    /\ args[1] # args[2]
    /\ out[1].disparity.num # 0

\* data minus its column means, divided by its Frobenius norm.
Standardized(a) == LET m == Centered(a) IN DivScalar(m, Norm(m))

ColumnSum(a, j) == RSum([i \in 1..a.shape[1] |-> At(a, i, j)])

SumOfSquares(a) == RSum([p \in 1..Len(a.flat) |-> RMul(a.flat[p], a.flat[p])])

\* The contents of mtx1 of call c, a local of the call and then part of its result.
Mtx1Of(c, h, f, o) == IF o[c].kind = "result" THEN h[o[c].mtx1] ELSE h[f[c].mtx1]

C10_OneRowIsDegenerate ==
    \A c \in Callers :
        /\ (InCall(c) /\ ValidShapes(in1[c], in2[c]) /\ in1[c].shape[1] = 1)
              => \/ pc[c] \in {"check_ndim", "check_shape", "check_empty", "center",
                               "check_degenerate"}
                 \/ Failed(c, "DegenerateDataError")
        /\ Returned(c) => in1[c].shape[1] >= 2

C10_Witness ==
    /\ Failed(1, "DegenerateDataError")
    /\ in1[1].shape = <<1, 2>>
    /\ in1[1] # in2[1]
    /\ events[1] = <<"ndim_ok", "shape_ok", "nonempty_ok", "center", "raise">>

====
